---- MODULE Spec2Model ----
(***************************************************************************)
(* Model of quantarhei/spectroscopy/twod2.py: the resolution-aware storage *)
(* of TwoDSpectrumBase (the d__data property, set_resolution, _add_data)   *)
(* and the plain data attributes (set_data, add_data), trim_to, save and   *)
(* load of TwoDSpectrum, and the exact and the mock calculator.            *)
(*                                                                         *)
(* Conventions of the model                                                *)
(*   - a numpy array is a sequence of rows, each a sequence of integers    *)
(*     (complex amplitudes are modelled by integers; addition is exact);   *)
(*   - Python None is  None  (the empty sequence) for arrays and axes and  *)
(*     the reserved string NoneStr for strings (dtype, tag, resolution);   *)
(*   - a dict is a function whose DOMAIN is the set of keys; the dict of   *)
(*     pathways of one type keeps insertion order: a sequence of           *)
(*     <<tag, array>> records;                                             *)
(*   - a call returns a record [exc, val]: exc = "" when it returns val,   *)
(*     and the name of the raised exception otherwise.                     *)
(***************************************************************************)
EXTENDS Integers, Sequences, FiniteSets, TLC

VARIABLES
    xaxis,                \* self.xaxis: None or <<start, length, step>>
    yaxis,                \* self.yaxis
    has_d__data,          \* TRUE when the attribute self._d__data exists
    _d__data,             \* self._d__data (the backing dict of the property)
    storage_resolution,   \* self.storage_resolution
    storage_initialized,  \* self.storage_initialized
    current_dtype,        \* self.current_dtype
    current_tag,          \* self.current_tag
    address_length,       \* self.address_length
    dtype,                \* self.dtype
    data,                 \* self.data
    reph2D,               \* self.reph2D
    nonr2D,               \* self.nonr2D
    op,                   \* the last call made on the spectrum
    exc,                  \* the exception it raised ("" when it returned)
    ret,                  \* the value it returned (None when it returns nothing)
    written,              \* history: the pathway writes stored, <<type, tag, array>>
    ncalls,               \* history: number of set_data / add_data / trim_to calls made
    keep_pathways,        \* self.keep_pathways  (TwoDSpectrum)
    keep_stypes,          \* self.keep_stypes
    t2,                   \* self.t2
    file,                 \* the file written by save (None when there is none)
    have_aceto,           \* the module flag _have_aceto
    pathways,             \* the mock calculator's self.pathways
    tc,                   \* the calculator's cursor self.tc
    ncalc,                \* number of calculate_one evaluations the last call started
    kind,                 \* class of the calculator object: "exact" or "mock"
    t2axis,               \* the calculator's self.t2axis
    oa1,                  \* the calculator's self.oa1 (None before bootstrap)
    oa3,                  \* the calculator's self.oa3
    Utr                   \* the population propagation matrix set on self.sys

vars == <<xaxis, yaxis, has_d__data, _d__data, storage_resolution,
          storage_initialized, current_dtype, current_tag, address_length,
          dtype, data, reph2D, nonr2D, op, exc, ret, written, ncalls,
          keep_pathways, keep_stypes, t2, file, have_aceto, pathways, tc, ncalc,
          kind, t2axis, oa1, oa3, Utr>>

storevars == <<has_d__data, _d__data, storage_resolution, storage_initialized,
               current_dtype, current_tag, address_length>>
datavars == <<dtype, data, reph2D, nonr2D>>
\* attributes of the subclass TwoDSpectrum and the saved file
twodvars == <<keep_pathways, keep_stypes, t2, file>>
\* the calculator object and the engine flag of the module
calcvars == <<have_aceto, pathways, tc, ncalc, kind, t2axis, oa1, oa3, Utr>>

-----------------------------------------------------------------------------
(* Bounds of the model *)

\* number of pathway arrays stored in one behaviour
MaxWrites == 2
\* number of set_data / add_data calls in one behaviour
MaxCalls == 3

None == << >>
NoneStr == "<None>"

\* tags offered to the write operations
Tags == {"a", "b"}
\* pathway types offered to the write operations: R1g is in GSB and NONR,
\* R2g is in GSB and REPH
WriteTypes == {"R1g", "R2g"}
\* arrays offered: ArrA fits the axes below, ArrC (1x1) does not
ArrA == << <<1>>, <<2>> >>
ArrC == << <<4>> >>
Arrays == {ArrA, ArrC}
\* the axes offered to set_axis_1 / set_axis_3: <<start, length, step>>
XAxes == { <<0, 2, 1>> }
YAxes == { <<0, 1, 1>> }

-----------------------------------------------------------------------------
(* Module-level tables *)

_ptypes == <<"R1g", "R2g", "R3g", "R4g", "R1fs", "R2fs", "R3fs", "R4fs">>

ProcessNames == <<"GSB", "SE", "ESA", "DC">>
_processes == [ GSB |-> <<_ptypes[1], _ptypes[2]>>,
                SE  |-> <<_ptypes[3], _ptypes[4]>>,
                ESA |-> <<_ptypes[5], _ptypes[6]>>,
                DC  |-> <<_ptypes[7], _ptypes[8]>> ]

SignalNames == <<"REPH", "NONR", "DC">>
\* faulty variant of the table of signals: R1g is listed under REPH as well
_signals_overlap == [ REPH |-> <<_ptypes[1], _ptypes[2], _ptypes[3], _ptypes[5]>>,
                      NONR |-> <<_ptypes[1], _ptypes[4], _ptypes[6]>>,
                      DC   |-> <<_ptypes[7], _ptypes[8]>> ]
_signals == [ REPH |-> <<_ptypes[2], _ptypes[3], _ptypes[5]>>,
              NONR |-> <<_ptypes[1], _ptypes[4], _ptypes[6]>>,
              DC   |-> <<_ptypes[7], _ptypes[8]>> ]

_resolutions == <<"off", "signals", "processes", "types", "pathways">>

Range(s) == { s[i] : i \in DOMAIN s }

Ok(v) == [exc |-> "", val |-> v]
Raise(e) == [exc |-> e, val |-> None]

\* list.index, 0-based
IndexOf(s, x) == (CHOOSE i \in DOMAIN s : s[i] = x) - 1

_resolution2number(res) ==
    IF res \in Range(_resolutions)
    THEN Ok(IndexOf(_resolutions, res))
    ELSE Raise("Exception: Unknow resolution level in TwoDSpectrum")

-----------------------------------------------------------------------------
(* numpy arrays *)

zeros(n, m) == [i \in 1..n |-> [j \in 1..m |-> 0]]
shape(a) == <<Len(a), Len(a[1])>>
length(axis) == axis[2]

\* data += x is defined when x broadcasts to the shape of data
CanIAdd(d, x) ==
    /\ Len(x) = Len(d) \/ Len(x) = 1
    /\ Len(x[1]) = Len(d[1]) \/ Len(x[1]) = 1

IAdd(d, x) ==
    [i \in 1..Len(d) |-> [j \in 1..Len(d[1]) |->
        d[i][j] + x[IF Len(x) = 1 THEN 1 ELSE i][IF Len(x[1]) = 1 THEN 1 ELSE j]]]

\* the loop  for x in xs: data += x
RECURSIVE IAddAll(_, _)
IAddAll(d, xs) ==
    IF xs = << >> THEN Ok(d)
    ELSE IF CanIAdd(d, Head(xs)) THEN IAddAll(IAdd(d, Head(xs)), Tail(xs))
    ELSE Raise("ValueError")

\* numpy.zeros((obj.xaxis.length, obj.yaxis.length)) or numpy.zeros((1,1))
AxesZeros ==
    IF xaxis = None \/ yaxis = None THEN Raise("AttributeError")
    ELSE Ok(zeros(length(xaxis), length(yaxis)))

InitZeros == IF storage_initialized THEN AxesZeros ELSE Ok(zeros(1, 1))

-----------------------------------------------------------------------------
(* dicts *)

HasKey(d, k) == k \in DOMAIN d
PieceTags(piece) == { piece[i][1] : i \in DOMAIN piece }
PieceGet(piece, tag) == piece[CHOOSE i \in DOMAIN piece : piece[i][1] = tag][2]
PieceArrays(piece) == [i \in DOMAIN piece |-> piece[i][2]]

RECURSIVE Concat(_)
Concat(ss) == IF ss = << >> THEN << >> ELSE Head(ss) \o Concat(Tail(ss))

EmptyDict == [k \in {} |-> None]
DictSet(d, k, v) == [x \in (DOMAIN d) \cup {k} |-> IF x = k THEN v ELSE d[x]]

\* try: obj._d__data[typ]  except: []      (a dict of pathways, as arrays)
PwaysOf(typ) ==
    IF has_d__data /\ HasKey(_d__data, typ) THEN PieceArrays(_d__data[typ]) ELSE << >>

\* try: obj._d__data[dtype]  except KeyError/AttributeError: None
\* (a one-element sequence when present, for the  if ddata is not None  test)
DdataOf(typ) ==
    IF has_d__data /\ HasKey(_d__data, typ) THEN << _d__data[typ] >> ELSE << >>

\* the loop  for r in calls: data += r   where a call may raise
RECURSIVE IAddResults(_, _)
IAddResults(d, rs) ==
    IF rs = << >> THEN Ok(d)
    ELSE IF Head(rs).exc # "" THEN Head(rs)
    ELSE IF CanIAdd(d, Head(rs).val) THEN IAddResults(IAdd(d, Head(rs).val), Tail(rs))
    ELSE Raise("ValueError")

-----------------------------------------------------------------------------
(* Aggregation functions *)

_pathways_to_processes(process) ==
    IF ~storage_initialized THEN Ok(zeros(1, 1))
    ELSE IF AxesZeros.exc # "" THEN AxesZeros
    ELSE IF process \notin DOMAIN _processes THEN Raise("Exception: Unknown process")
    ELSE IAddAll(AxesZeros.val,
                 Concat([i \in DOMAIN _processes[process] |->
                            PwaysOf(_processes[process][i])]))

_pathways_to_signals(signal) ==
    IF InitZeros.exc # "" THEN InitZeros
    ELSE IF signal \notin DOMAIN _signals THEN Raise("Exception: Unknown signal")
    ELSE IAddAll(InitZeros.val,
                 Concat([i \in DOMAIN _signals[signal] |->
                            PwaysOf(_signals[signal][i])]))

_pathways_to_total ==
    IF InitZeros.exc # "" THEN InitZeros
    ELSE IAddResults(InitZeros.val,
                     [i \in DOMAIN SignalNames |-> _pathways_to_signals(SignalNames[i])])

\* faulty variant of _types_to_processes: only the first type of the process is added
_types_to_processes_first(process) ==
    IF InitZeros.exc # "" THEN InitZeros
    ELSE IF process \notin DOMAIN _processes THEN Raise("KeyError")
    ELSE IAddAll(InitZeros.val, DdataOf(_processes[process][1]))

_types_to_processes(process) ==
    IF InitZeros.exc # "" THEN InitZeros
    ELSE IF process \notin DOMAIN _processes THEN Raise("KeyError")
    ELSE IAddAll(InitZeros.val,
                 Concat([i \in DOMAIN _processes[process] |->
                            DdataOf(_processes[process][i])]))

_types_to_signals(signal) ==
    IF InitZeros.exc # "" THEN InitZeros
    ELSE IF signal \notin DOMAIN _signals THEN Raise("KeyError")
    ELSE IAddAll(InitZeros.val,
                 Concat([i \in DOMAIN _signals[signal] |->
                            DdataOf(_signals[signal][i])]))

\* data += obj._d__data[name]  for name in names
StoredResults(names) ==
    [i \in DOMAIN names |->
        IF ~has_d__data THEN Raise("AttributeError")
        ELSE IF HasKey(_d__data, names[i]) THEN Ok(_d__data[names[i]])
        ELSE Raise("KeyError")]

_signals_to_total ==
    IF ~storage_initialized THEN Ok(zeros(1, 1))
    ELSE IF AxesZeros.exc # "" THEN AxesZeros
    ELSE IAddResults(AxesZeros.val, StoredResults(SignalNames))

_processes_to_total ==
    IF ~storage_initialized THEN Ok(zeros(1, 1))
    ELSE IF AxesZeros.exc # "" THEN AxesZeros
    ELSE IAddResults(AxesZeros.val, StoredResults(ProcessNames))

\* the loop body calls _types_to_processes(process) without the object:
\* Python raises TypeError (missing positional argument) in the first round
_types_to_total ==
    IF ~storage_initialized THEN Ok(zeros(1, 1))
    ELSE IF AxesZeros.exc # "" THEN AxesZeros
    ELSE Raise("TypeError")

-----------------------------------------------------------------------------
(* The d__data property: getter, for the address (cd, ct) *)

\* tag not specified: add up all pathways of the type
TypeSum(piece) ==
    IF piece = << >> THEN Raise("UnboundLocalError")
    ELSE IAddAll(piece[1][2], PieceArrays(Tail(piece)))

\* the dict of the type after that loop, had the accumulator been the first
\* stored array itself: every later array is added into it
PieceAfterSum_alias(piece) ==
    IF Len(piece) >= 2 /\ TypeSum(piece).exc = ""
    THEN [piece EXCEPT ![1] = <<piece[1][1], TypeSum(piece).val>>]
    ELSE piece

\* the dict of the type after that loop: the accumulator starts as
\* dat.copy(), so the in-place additions do not reach a stored array
PieceAfterSum(piece) == piece

prop_get_pathways(cd, ct) ==
    IF cd \in Range(_ptypes) THEN
        IF storage_initialized THEN
            IF ~HasKey(_d__data, cd) THEN AxesZeros
            ELSE IF ct # NoneStr THEN
                IF ct \in PieceTags(_d__data[cd])
                THEN Ok(PieceGet(_d__data[cd], ct))
                ELSE Raise("KeyError")
            ELSE TypeSum(_d__data[cd])
        ELSE Ok(zeros(1, 1))
    ELSE IF cd \in DOMAIN _processes THEN _pathways_to_processes(cd)
    ELSE IF cd \in DOMAIN _signals THEN _pathways_to_signals(cd)
    ELSE IF cd = "total" THEN _pathways_to_total
    ELSE Ok(None)

prop_get_types(cd) ==
    IF cd \in Range(_ptypes) THEN
        IF HasKey(_d__data, cd) THEN Ok(_d__data[cd]) ELSE Raise("KeyError")
    ELSE IF cd \in DOMAIN _processes THEN _types_to_processes(cd)
    ELSE IF cd \in DOMAIN _signals THEN _types_to_signals(cd)
    ELSE IF cd = "total" THEN _types_to_total
    ELSE Ok(None)

prop_get_processes(cd) ==
    IF cd \in DOMAIN _processes THEN
        IF HasKey(_d__data, cd) THEN Ok(_d__data[cd]) ELSE Raise("KeyError")
    ELSE IF cd = "total" THEN _processes_to_total
    ELSE Ok(None)

prop_get_signals(cd) ==
    IF cd \in DOMAIN _signals THEN
        IF HasKey(_d__data, cd) THEN Ok(_d__data[cd]) ELSE Raise("KeyError")
    ELSE IF cd = "total" THEN _signals_to_total
    ELSE Ok(None)

prop_get(cd, ct) ==
    IF ~has_d__data THEN Raise("AttributeError")     \* getattr(self, "_d__data")
    ELSE IF storage_resolution = "pathways" THEN prop_get_pathways(cd, ct)
    ELSE IF storage_resolution = "types" THEN prop_get_types(cd)
    ELSE IF storage_resolution = "processes" THEN prop_get_processes(cd)
    ELSE IF storage_resolution = "signals" THEN prop_get_signals(cd)
    ELSE Raise("Exception: not implemented")

\* self._d__data after the getter has run for the address (cd, ct): the
\* processes, signals and total sums accumulate into a fresh zeros array and
\* the stored arrays of the other branches are returned as they are
prop_get_store(cd, ct) ==
    IF /\ has_d__data /\ storage_resolution = "pathways"
       /\ cd \in Range(_ptypes) /\ storage_initialized
       /\ HasKey(_d__data, cd) /\ ct = NoneStr
    THEN [_d__data EXCEPT ![cd] = PieceAfterSum(_d__data[cd])]
    ELSE _d__data

-----------------------------------------------------------------------------
(* The d__data property: setter, for the address (cd, ct).                  *)
(* Returns the exception and the new _d__data / storage_initialized.        *)

SetterIni == [has |-> IF storage_initialized THEN has_d__data ELSE TRUE,
              d   |-> IF storage_initialized THEN _d__data ELSE EmptyDict]

SetterResult(e, d, stored) ==
    [exc |-> e, has |-> SetterIni.has, d |-> d, ini |-> TRUE, stored |-> stored]

\* faulty variant of the setter: the  if self.current_tag in piece.keys()  test is
\* missing, so a second write under the same tag is stored as well
prop_set_pathways_nodup(cd, ct, value) ==
    LET storage == SetterIni.d
        piece == IF HasKey(storage, cd) THEN storage[cd] ELSE << >>
    IN  IF cd \notin Range(_ptypes)
        THEN SetterResult("Exception: Wrong pathways type", storage, FALSE)
        ELSE SetterResult("", DictSet(storage, cd, Append(piece, <<ct, value>>)), TRUE)

\* faulty variant of the setter: the array is put into the dict of the type
\* before the tag is tested, so a rejected write leaves a second entry
prop_set_pathways_storefirst(cd, ct, value) ==
    LET storage == SetterIni.d
        piece == IF HasKey(storage, cd) THEN storage[cd] ELSE << >>
    IN  IF cd \notin Range(_ptypes)
        THEN SetterResult("Exception: Wrong pathways type", storage, FALSE)
        ELSE IF ct \in PieceTags(piece)
        THEN SetterResult("Exception: Tag already exists",
                          DictSet(storage, cd, Append(piece, <<ct, value>>)), FALSE)
        ELSE SetterResult("", DictSet(storage, cd, Append(piece, <<ct, value>>)), TRUE)

\* the body of the  if self.storage_resolution == "pathways"  branch
prop_set_pathways(cd, ct, value) ==
    LET storage == SetterIni.d
        piece == IF HasKey(storage, cd) THEN storage[cd] ELSE << >>
    IN  IF cd \notin Range(_ptypes)
        THEN SetterResult("Exception: Wrong pathways type", storage, FALSE)
        ELSE IF ct \in PieceTags(piece)
        THEN SetterResult("Exception: Tag already exists", storage, FALSE)
        \* (the shape test of the source follows the raise above, inside the
        \*  same  if  block: it is never executed)
        ELSE SetterResult("", DictSet(storage, cd, Append(piece, <<ct, value>>)), TRUE)

prop_set(cd, ct, value) ==
    IF value # None THEN                       \* isinstance(value, numpy.ndarray)
        IF storage_resolution = "pathways"
        THEN prop_set_pathways(cd, ct, value)
        ELSE SetterResult("", SetterIni.d, FALSE)
    ELSE SetterResult("TypeError", SetterIni.d, FALSE)

-----------------------------------------------------------------------------
(* get_all_tags(): the [type, tag] pairs, types in the order of _ptypes and   *)
(* tags in the order of the dict of the type                                 *)

\* for key in pdict.keys(): tags.append([typ, key])
TagsOfType(typ) ==
    IF HasKey(_d__data, typ)
    THEN [j \in DOMAIN _d__data[typ] |-> <<typ, _d__data[typ][j][1]>>]
    ELSE << >>

get_all_tags ==
    IF ~has_d__data THEN Raise("AttributeError")
    \* below pathways resolution an entry of a type is an array: no keys()
    ELSE IF storage_resolution # "pathways"
            /\ \E i \in DOMAIN _ptypes : HasKey(_d__data, _ptypes[i])
    THEN Raise("AttributeError")
    ELSE Ok(Concat([i \in DOMAIN _ptypes |-> TagsOfType(_ptypes[i])]))

-----------------------------------------------------------------------------
(* _convert_resolution(old, new): the exception and the new _d__data *)

ConvResult(e, has, d) == [exc |-> e, has |-> has, d |-> d]

\* the first exception among the results, "" when there is none
RECURSIVE FirstExc(_)
FirstExc(rs) ==
    IF rs = << >> THEN ""
    ELSE IF Head(rs).exc # "" THEN Head(rs).exc ELSE FirstExc(Tail(rs))

\* pathways -> types: the sum of the pathways of one type
SumOfType(typ) ==
    LET zero == IF has_d__data THEN AxesZeros ELSE Ok(zeros(1, 1))
    IN  IF zero.exc # "" THEN zero ELSE IAddAll(zero.val, PwaysOf(typ))

ConvertBy(names, results) ==
    IF FirstExc(results) # ""
    THEN ConvResult(FirstExc(results), has_d__data, _d__data)
    ELSE ConvResult("", TRUE,
                    [k \in Range(names) |->
                        results[CHOOSE i \in DOMAIN names : names[i] = k].val])

\* faulty variant of _convert_resolution: the final  else: raise  is missing, so an
\* unsupported pair is accepted without converting anything
_convert_resolution_noraise(old, new) ==
    IF old = 4 /\ new = 3 THEN
        ConvertBy(_ptypes, [i \in DOMAIN _ptypes |-> SumOfType(_ptypes[i])])
    ELSE IF old = 3 /\ new = 2 THEN
        ConvertBy(ProcessNames,
                  [i \in DOMAIN ProcessNames |-> _types_to_processes(ProcessNames[i])])
    ELSE IF old = 3 /\ new = 1 THEN
        ConvertBy(SignalNames,
                  [i \in DOMAIN SignalNames |-> _types_to_signals(SignalNames[i])])
    ELSE IF old = 1 /\ new = 0 THEN
        ConvResult(_signals_to_total.exc, has_d__data, _d__data)
    ELSE IF old = 2 /\ new = 0 THEN
        ConvResult(_processes_to_total.exc, has_d__data, _d__data)
    ELSE ConvResult("", has_d__data, _d__data)

_convert_resolution(old, new) ==
    IF old = 4 /\ new = 3 THEN
        ConvertBy(_ptypes, [i \in DOMAIN _ptypes |-> SumOfType(_ptypes[i])])
    ELSE IF old = 3 /\ new = 2 THEN
        ConvertBy(ProcessNames,
                  [i \in DOMAIN ProcessNames |-> _types_to_processes(ProcessNames[i])])
    ELSE IF old = 3 /\ new = 1 THEN
        ConvertBy(SignalNames,
                  [i \in DOMAIN SignalNames |-> _types_to_signals(SignalNames[i])])
    \* the two conversions to "off" compute the total into a local dict and
    \* never assign it to self._d__data
    ELSE IF old = 1 /\ new = 0 THEN
        ConvResult(_signals_to_total.exc, has_d__data, _d__data)
    ELSE IF old = 2 /\ new = 0 THEN
        ConvResult(_processes_to_total.exc, has_d__data, _d__data)
    ELSE ConvResult("Exception: Cannot convert resolution", has_d__data, _d__data)

\* set_resolution(resolution): exception, new storage_resolution, new _d__data
ResResult(e, res, has, d) == [exc |-> e, res |-> res, has |-> has, d |-> d]

\* faulty variant of set_resolution: the test  res_old < res_new  is missing, so a
\* higher level is taken over like an equal one
set_resolution_result_nocheck(resolution) ==
    LET res_old == _resolution2number(storage_resolution).val
        res_new == _resolution2number(resolution).val
        conv == _convert_resolution(res_old, res_new)
    IN  IF resolution \notin Range(_resolutions)
        THEN ResResult("Exception: Unknown resolution",
                       storage_resolution, has_d__data, _d__data)
        ELSE IF res_old > res_new
        THEN IF conv.exc # ""
             THEN ResResult(conv.exc, storage_resolution, has_d__data, _d__data)
             ELSE ResResult("", resolution, conv.has, conv.d)
        ELSE ResResult("", resolution, has_d__data, _d__data)

\* faulty variant of set_resolution: self.storage_resolution is assigned before
\* the conversion is attempted, so a failed conversion leaves the new level
set_resolution_result_assignfirst(resolution) ==
    LET res_old == _resolution2number(storage_resolution).val
        res_new == _resolution2number(resolution).val
        conv == _convert_resolution(res_old, res_new)
    IN  IF resolution \notin Range(_resolutions)
        THEN ResResult("Exception: Unknown resolution",
                       storage_resolution, has_d__data, _d__data)
        ELSE IF res_old < res_new
        THEN ResResult("Exception: Cannot convert from lower to higher resolution",
                       storage_resolution, has_d__data, _d__data)
        ELSE IF res_old > res_new
        THEN IF conv.exc # ""
             THEN ResResult(conv.exc, resolution, has_d__data, _d__data)
             ELSE ResResult("", resolution, conv.has, conv.d)
        ELSE ResResult("", resolution, has_d__data, _d__data)

set_resolution_result(resolution) ==
    LET res_old == _resolution2number(storage_resolution).val
        res_new == _resolution2number(resolution).val
        conv == _convert_resolution(res_old, res_new)
    IN  IF resolution \notin Range(_resolutions)
        THEN ResResult("Exception: Unknown resolution",
                       storage_resolution, has_d__data, _d__data)
        ELSE IF res_old < res_new
        THEN ResResult("Exception: Cannot convert from lower to higher resolution",
                       storage_resolution, has_d__data, _d__data)
        ELSE IF res_old > res_new
        THEN IF conv.exc # ""
             THEN ResResult(conv.exc, storage_resolution, has_d__data, _d__data)
             ELSE ResResult("", resolution, conv.has, conv.d)
        ELSE ResResult("", resolution, has_d__data, _d__data)

-----------------------------------------------------------------------------
(* Inputs offered to the operations *)

\* set_data_flag: a list [dtype, tag] or a plain dtype
Flags == { [islist |-> TRUE,  items |-> <<"R1g", "a">>],
           [islist |-> FALSE, items |-> <<"R2g">>],
           [islist |-> FALSE, items |-> <<"total">>] }

ResolutionArgs == Range(_resolutions) \cup {"bogus"}
\* _add_data(data, resolution, dtype, tag): every write of an offered array
\* under an offered type and tag, and one call for each other way through
AddArgs == { <<a, NoneStr, t, "a">> : a \in Arrays, t \in WriteTypes }
              \cup { <<ArrA, NoneStr, "R1g", "b">>,
                     <<ArrA, NoneStr, "Tot", "a">>,
                     <<ArrA, NoneStr, "R1g", NoneStr>>,
                     <<ArrA, "pathways", "R1g", "b">>,
                     <<ArrA, "types", "R1g", "b">>,
                     <<ArrA, "bogus", "R1g", "b">> }
Values == {ArrA, None}

\* every address a read can name
AllDtypes == Range(_ptypes) \cup (DOMAIN _processes) \cup (DOMAIN _signals)
                \cup {"total", "Tot", NoneStr}
AllTags == Tags \cup {NoneStr}

-----------------------------------------------------------------------------
(* Operations of TwoDSpectrumBase: the storage *)

\* the outcome of the last call
Returned(o, e, r) == op' = o /\ exc' = e /\ ret' = r

\* a call of a TwoDSpectrumBase method: it touches neither the attributes of
\* the subclass nor the calculator
Called(o, e, r) == Returned(o, e, r) /\ UNCHANGED <<twodvars, calcvars>>

Init ==
    /\ xaxis = None /\ yaxis = None
    /\ has_d__data = FALSE /\ _d__data = EmptyDict
    /\ storage_resolution = "pathways"
    /\ storage_initialized = FALSE
    /\ current_dtype = NoneStr /\ current_tag = NoneStr /\ address_length = 1
    /\ dtype = NoneStr /\ data = None /\ reph2D = None /\ nonr2D = None
    /\ op = "__init__" /\ exc = "" /\ ret = None
    /\ written = << >> /\ ncalls = 0
    /\ keep_pathways = FALSE /\ keep_stypes = TRUE /\ t2 = -1
    /\ file = None
    /\ have_aceto = TRUE /\ pathways = << >> /\ tc = 0 /\ ncalc = 0
    /\ kind = "exact" /\ t2axis = <<0, 1, 1>> /\ oa1 = None /\ oa3 = None
    /\ Utr = None

set_axis_1(axis) ==
    /\ xaxis' = axis
    /\ Called("set_axis_1", "", None)
    /\ UNCHANGED <<yaxis, storevars, datavars, written, ncalls>>

set_axis_3(axis) ==
    /\ yaxis' = axis
    /\ Called("set_axis_3", "", None)
    /\ UNCHANGED <<xaxis, storevars, datavars, written, ncalls>>

set_data_flag(flag) ==
    /\ current_dtype' = flag.items[1]
    /\ IF flag.islist
       THEN IF Len(flag.items) >= 2
            THEN /\ current_tag' = flag.items[2]
                 /\ address_length' = 2
                 /\ Called("set_data_flag", "", None)
            ELSE /\ UNCHANGED <<current_tag, address_length>>
                 /\ Called("set_data_flag",
                           "Exception: flag in form of a list must have two elements",
                           None)
       ELSE /\ current_tag' = NoneStr
            /\ address_length' = 1
            /\ Called("set_data_flag", "", None)
    /\ UNCHANGED <<xaxis, yaxis, has_d__data, _d__data, storage_resolution,
                   storage_initialized, datavars, written, ncalls>>

\* value = self.d__data
d__data_get ==
    /\ Called("d__data_get",
              prop_get(current_dtype, current_tag).exc,
              prop_get(current_dtype, current_tag).val)
    /\ _d__data' = prop_get_store(current_dtype, current_tag)
    /\ UNCHANGED <<xaxis, yaxis, has_d__data, storage_resolution,
                   storage_initialized, current_dtype, current_tag,
                   address_length, datavars, written, ncalls>>

\* the effect of the setter on the store, shared by d__data_set and _add_data
Stored(r, cd, ct, value) ==
    /\ has_d__data' = r.has
    /\ _d__data' = r.d
    /\ storage_initialized' = r.ini
    /\ written' = IF r.stored THEN Append(written, <<cd, ct, value>>) ELSE written
    /\ Len(written') <= MaxWrites

\* self.d__data = value
d__data_set(value) ==
    /\ Stored(prop_set(current_dtype, current_tag, value),
              current_dtype, current_tag, value)
    /\ Called("d__data_set",
              prop_set(current_dtype, current_tag, value).exc, None)
    /\ UNCHANGED <<xaxis, yaxis, storage_resolution, current_dtype, current_tag,
                   address_length, datavars, ncalls>>

set_resolution(resolution) ==
    LET r == set_resolution_result(resolution)
    IN  /\ storage_resolution' = r.res
        /\ has_d__data' = r.has
        /\ _d__data' = r.d
        /\ Called("set_resolution", r.exc, None)
        /\ UNCHANGED <<xaxis, yaxis, storage_initialized, current_dtype,
                       current_tag, address_length, datavars, written, ncalls>>

\* the resolution check of _add_data: the exception and the resolution used
add_resolution(resolution) ==
    IF resolution = NoneStr THEN [exc |-> "", res |-> storage_resolution]
    ELSE IF _resolution2number(resolution).exc # ""
    THEN [exc |-> _resolution2number(resolution).exc, res |-> resolution]
    ELSE IF _resolution2number(resolution).val
              <= _resolution2number(storage_resolution).val
    THEN [exc |-> "", res |-> resolution]
    ELSE [exc |-> "Exception: This TwoDSpectrum does not have enough resolution",
          res |-> resolution]

_add_data(p_data, resolution, p_dtype, tag) ==
    LET r == add_resolution(resolution)
        failed(e) == /\ Called("_add_data", e, None)
                     /\ UNCHANGED <<storevars, written>>
    IN  /\ IF r.exc # "" THEN failed(r.exc)
           ELSE IF r.res # "pathways" THEN failed("")
           ELSE IF p_dtype \notin Range(_ptypes)
           THEN failed("Exception: Unknown type of Liouville pathway")
           ELSE IF tag = NoneStr
           THEN failed("Exception: Tag for Liouville pathway not specified")
           ELSE \* self.set_data_flag([dtype, tag]); self.d__data = data
                /\ current_dtype' = p_dtype
                /\ current_tag' = tag
                /\ address_length' = 2
                /\ Stored(prop_set(p_dtype, tag, p_data), p_dtype, tag, p_data)
                /\ Called("_add_data",
                          prop_set(p_dtype, tag, p_data).exc, None)
                /\ UNCHANGED storage_resolution
        /\ UNCHANGED <<xaxis, yaxis, datavars, ncalls>>

NextStore ==
    \/ \E axis \in XAxes : set_axis_1(axis)
    \/ \E axis \in YAxes : set_axis_3(axis)
    \/ \E flag \in Flags : set_data_flag(flag)
    \/ d__data_get
    \/ \E value \in Values : d__data_set(value)
    \/ \E resolution \in ResolutionArgs : set_resolution(resolution)
    \/ \E a \in AddArgs : _add_data(a[1], a[2], a[3], a[4])

\* one spectrum object under any sequence of storage calls
Spec == Init /\ [][NextStore]_vars

-----------------------------------------------------------------------------
(* Operations of TwoDSpectrumBase: the data attributes *)

dtypes == <<"Tot", "Reph", "Nonr">>

\* arrays and dtype arguments offered to set_data / add_data
ArrB == << <<3>>, <<5>> >>
DataArrays == {ArrA, ArrB, ArrC}
DtypeArgs == Range(dtypes) \cup {"bogus"}

\* the record of data attributes after  self.<attribute of p_dtype> = a
Assigned(p_dtype, a) ==
    [data   |-> IF p_dtype = "Tot"  THEN a ELSE data,
     reph2D |-> IF p_dtype = "Reph" THEN a ELSE reph2D,
     nonr2D |-> IF p_dtype = "Nonr" THEN a ELSE nonr2D]

AttrOf(p_dtype) ==
    IF p_dtype = "Tot" THEN data ELSE IF p_dtype = "Reph" THEN reph2D ELSE nonr2D

DataResult(e, dt, attrs) == [exc |-> e, dtype |-> dt, attrs |-> attrs]
DataUnchanged(e, dt) ==
    DataResult(e, dt, [data |-> data, reph2D |-> reph2D, nonr2D |-> nonr2D])

set_data_type(p_dtype) ==
    /\ IF p_dtype \in Range(dtypes)
       THEN dtype' = p_dtype /\ Called("set_data_type", "", None)
       ELSE /\ UNCHANGED dtype
            /\ Called("set_data_type",
                      "Exception: Unknown data type for TwoDSpectrum object", None)
    /\ UNCHANGED <<xaxis, yaxis, storevars, data, reph2D, nonr2D, written, ncalls>>

\* faulty variant of set_data: the comparison with the dtype already fixed is missing
set_data_result_noconflict(p_data, p_dtype) ==
    LET dt == IF dtype = NoneStr /\ p_dtype \in Range(dtypes) THEN p_dtype ELSE dtype
    IN  IF p_dtype \in Range(dtypes)
        THEN DataResult("", dt, Assigned(p_dtype, p_data))
        ELSE DataUnchanged("Exception: Unknow type of data", dt)

set_data_result(p_data, p_dtype) ==
    LET dt == IF dtype = NoneStr /\ p_dtype \in Range(dtypes) THEN p_dtype ELSE dtype
    IN  IF dtype # NoneStr /\ p_dtype # dtype
        THEN DataUnchanged("Exception: Incorrect data type in TwoDSpectrum", dtype)
        ELSE IF p_dtype \in Range(dtypes)
        THEN DataResult("", dt, Assigned(p_dtype, p_data))
        ELSE DataUnchanged("Exception: Unknow type of data", dt)

\* the test of the source is  if dtype is None  on the ARGUMENT: for every
\* dtype argument given, the else branch compares it with self.dtype
add_data_result(p_data, p_dtype) ==
    LET acc == IF AttrOf(p_dtype) = None
               THEN zeros(shape(p_data)[1], shape(p_data)[2])
               ELSE AttrOf(p_dtype)
    IN  IF p_dtype # NoneStr /\ p_dtype # dtype
        THEN DataUnchanged("Exception: Incorrect data type in TwoDSpectrum", dtype)
        ELSE IF p_dtype \notin Range(dtypes)
        THEN DataUnchanged("Exception: Unknow type of data", dtype)
        ELSE IF CanIAdd(acc, p_data)
        THEN DataResult("", dtype, Assigned(p_dtype, IAdd(acc, p_data)))
        \* the accumulator was assigned before the failing  +=
        ELSE DataResult("ValueError", dtype, Assigned(p_dtype, acc))

DataEffect(r) ==
    /\ ncalls < MaxCalls
    /\ ncalls' = ncalls + 1
    /\ dtype' = r.dtype
    /\ data' = r.attrs.data
    /\ reph2D' = r.attrs.reph2D
    /\ nonr2D' = r.attrs.nonr2D
    /\ UNCHANGED <<xaxis, yaxis, storevars, written>>

set_data(p_data, p_dtype) ==
    /\ DataEffect(set_data_result(p_data, p_dtype))
    /\ Called("set_data", set_data_result(p_data, p_dtype).exc, None)

add_data(p_data, p_dtype) ==
    /\ DataEffect(add_data_result(p_data, p_dtype))
    /\ Called("add_data", add_data_result(p_data, p_dtype).exc, None)

NextData ==
    \/ \E p_dtype \in DtypeArgs : set_data_type(p_dtype)
    \/ \E p_data \in DataArrays, p_dtype \in DtypeArgs : set_data(p_data, p_dtype)
    \/ \E p_data \in DataArrays, p_dtype \in DtypeArgs : add_data(p_data, p_dtype)

\* one spectrum object under any sequence of set_data_type/set_data/add_data
SpecData == Init /\ [][NextData]_vars

-----------------------------------------------------------------------------
(* TwoDSpectrum.trim_to; the axis class FrequencyAxis is not part of the    *)
(* sources: an axis is <<start, length, step>>, its samples are             *)
(* start + i*step, and locate returns the index of the nearest sample       *)

\* number of trim_to calls in one behaviour
MaxTrims == 2

Abs(x) == IF x < 0 THEN -x ELSE x

\* axis.data, as a sequence (Python index i is position i+1)
AxisData(axis) == [i \in 1..axis[2] |-> axis[1] + (i - 1) * axis[3]]
AxisMin(axis) == axis[1]
AxisMax(axis) == axis[1] + (axis[2] - 1) * axis[3]

\* axis.locate(x): the indices of the samples nearest to x (two on a tie)
locate(axis, x) ==
    { i \in 0..(axis[2] - 1) :
        \A j \in 0..(axis[2] - 1) :
            Abs(AxisData(axis)[i + 1] - x) <= Abs(AxisData(axis)[j + 1] - x) }

\* Python  seq[i]  for -len <= i < len
PyIndex(seq, i) == IF i < 0 THEN seq[Len(seq) + i + 1] ELSE seq[i + 1]

\* Python  seq[lo:hi]
PyBound(n, i) == IF i < 0 THEN (IF n + i < 0 THEN 0 ELSE n + i)
                 ELSE IF i > n THEN n ELSE i
PySlice(seq, lo, hi) ==
    LET a == PyBound(Len(seq), lo)
        b == PyBound(Len(seq), hi)
    IN  IF a >= b THEN << >> ELSE SubSeq(seq, a + 1, b)

\* numpy  arr[r0:r1, c0:c1]
Slice2D(arr, r0, r1, c0, c1) ==
    LET rows == PySlice(arr, r0, r1)
    IN  [i \in DOMAIN rows |-> PySlice(rows[i], c0, c1)]

\* axes and arrays of the spectra that are trimmed, saved and loaded
Grid(n, m) == [i \in 1..n |-> [j \in 1..m |-> 10 * i + j]]
TrimXAxes == { <<0, 4, 3>> }
TrimYAxes == { <<0, 3, 3>> }

\* windows offered to trim_to: both ranges lie within the axes, where locate
\* is defined
Windows ==
    IF xaxis = None \/ yaxis = None THEN {}
    ELSE { w \in (AxisMin(xaxis)..AxisMax(xaxis)) \X (AxisMin(xaxis)..AxisMax(xaxis))
                   \X (AxisMin(yaxis)..AxisMax(yaxis)) \X (AxisMin(yaxis)..AxisMax(yaxis)) :
             w[1] < w[2] /\ w[3] < w[4] }

\* the body of trim_to for the located indices (before the off-set)
trim_effect(l1_min, l1_max, l3_min, l3_max) ==
    LET i1_min == l1_min - 1
        i1_max == l1_max + 1
        i3_min == l3_min - 1
        i3_max == l3_max + 1
    IN  /\ xaxis' = << PyIndex(AxisData(xaxis), i1_min), i1_max - i1_min, xaxis[3] >>
        /\ yaxis' = << PyIndex(AxisData(yaxis), i3_min), i3_max - i3_min, yaxis[3] >>
        /\ IF keep_stypes
           THEN /\ reph2D' = IF reph2D # None
                             THEN Slice2D(reph2D, i1_min, i1_max, i3_min, i3_max)
                             ELSE reph2D
                /\ nonr2D' = IF nonr2D # None
                             THEN Slice2D(nonr2D, i1_min, i1_max, i3_min, i3_max)
                             ELSE nonr2D
                /\ UNCHANGED data
           ELSE /\ data' = IF data # None
                           THEN Slice2D(data, i1_min, i1_max, i3_min, i3_max)
                           ELSE data
                /\ UNCHANGED <<reph2D, nonr2D>>

trim_to(window) ==
    /\ ncalls < MaxTrims
    /\ ncalls' = ncalls + 1
    /\ IF window = None
       THEN UNCHANGED <<xaxis, yaxis, data, reph2D, nonr2D>>
       ELSE /\ window \in Windows
            /\ \E l1_min \in locate(xaxis, window[1]), l1_max \in locate(xaxis, window[2]),
                  l3_min \in locate(yaxis, window[3]), l3_max \in locate(yaxis, window[4]) :
                  trim_effect(l1_min, l1_max, l3_min, l3_max)
    /\ Returned("trim_to", "", None)
    /\ UNCHANGED <<dtype, storevars, written, twodvars, calcvars>>

\* a spectrum with its axes set and its arrays filled on the grid of the
\* axes: set_data stores the array of the dtype it is given whatever
\* keep_stypes is, and the constructor's default is keep_stypes=True
InitTrim ==
    /\ xaxis \in TrimXAxes /\ yaxis \in TrimYAxes
    /\ has_d__data = FALSE /\ _d__data = EmptyDict
    /\ storage_resolution = "pathways"
    /\ storage_initialized = FALSE
    /\ current_dtype = NoneStr /\ current_tag = NoneStr /\ address_length = 1
    /\ keep_stypes \in BOOLEAN
    /\ \/ /\ dtype = "Reph" /\ data = None
          /\ reph2D = Grid(length(xaxis), length(yaxis))
          /\ nonr2D \in IF keep_stypes
                         THEN {None, Grid(length(xaxis), length(yaxis))}
                         ELSE {None}
       \/ /\ dtype = "Tot" /\ reph2D = None /\ nonr2D = None
          /\ data = Grid(length(xaxis), length(yaxis))
    /\ op = "__init__" /\ exc = "" /\ ret = None
    /\ written = << >> /\ ncalls = 0
    /\ keep_pathways = FALSE /\ t2 = -1
    /\ file = None
    /\ have_aceto = TRUE /\ pathways = << >> /\ tc = 0 /\ ncalc = 0
    /\ kind = "exact" /\ t2axis = <<0, 1, 1>> /\ oa1 = None /\ oa3 = None
    /\ Utr = None

NextTrim ==
    \/ \E window \in Windows : trim_to(window)
    \/ trim_to(None)

\* one filled spectrum under any sequence of trim_to calls
SpecTrim == InitTrim /\ [][NextTrim]_vars

-----------------------------------------------------------------------------
(* Spectra held in local variables of the calculators: a record of the      *)
(* attributes the calculators use                                           *)

\* TwoDSpectrum()
NewSpectrum ==
    [xaxis |-> None, yaxis |-> None, dtype |-> NoneStr,
     data |-> None, reph2D |-> None, nonr2D |-> None, t2 |-> -1]

\* sp.<attribute of p_dtype> = a
AssignedOn(sp, p_dtype, a) ==
    IF p_dtype = "Tot" THEN [sp EXCEPT !.data = a]
    ELSE IF p_dtype = "Reph" THEN [sp EXCEPT !.reph2D = a]
    ELSE [sp EXCEPT !.nonr2D = a]

AttrOn(sp, p_dtype) ==
    IF p_dtype = "Tot" THEN sp.data
    ELSE IF p_dtype = "Reph" THEN sp.reph2D ELSE sp.nonr2D

\* sp.set_data(p_data, dtype=p_dtype): [exc, val], val the spectrum afterwards
set_data_on(sp, p_data, p_dtype) ==
    LET fixed == IF sp.dtype = NoneStr /\ p_dtype \in Range(dtypes)
                 THEN [sp EXCEPT !.dtype = p_dtype] ELSE sp
    IN  IF sp.dtype # NoneStr /\ p_dtype # sp.dtype
        THEN [exc |-> "Exception: Incorrect data type in TwoDSpectrum", val |-> sp]
        ELSE IF p_dtype \in Range(dtypes)
        THEN Ok(AssignedOn(fixed, p_dtype, p_data))
        ELSE [exc |-> "Exception: Unknow type of data", val |-> fixed]

\* sp.get_value_at(x, y): the element [ix, iy] of the array of sp.dtype
get_value_at(sp, x, y) ==
    IF sp.dtype = NoneStr
    THEN Raise("Exception: No data in the TwoDSpectrum object")
    ELSE LET ix == CHOOSE i \in locate(sp.xaxis, x) : TRUE
             iy == CHOOSE i \in locate(sp.yaxis, y) : TRUE
             a == AttrOn(sp, sp.dtype)
         IN  IF a = None THEN Raise("TypeError")
             ELSE IF ix + 1 \in DOMAIN a /\ iy + 1 \in DOMAIN a[ix + 1]
             THEN Ok(a[ix + 1][iy + 1])
             ELSE Raise("IndexError")

\* sp.add_data(p_data, dtype=p_dtype)
add_data_on(sp, p_data, p_dtype) ==
    LET acc == IF AttrOn(sp, p_dtype) = None
               THEN zeros(shape(p_data)[1], shape(p_data)[2])
               ELSE AttrOn(sp, p_dtype)
    IN  IF p_dtype # NoneStr /\ p_dtype # sp.dtype
        THEN [exc |-> "Exception: Incorrect data type in TwoDSpectrum", val |-> sp]
        ELSE IF p_dtype \notin Range(dtypes)
        THEN [exc |-> "Exception: Unknow type of data", val |-> sp]
        ELSE IF CanIAdd(acc, p_data)
        THEN Ok(AssignedOn(sp, p_dtype, IAdd(acc, p_data)))
        ELSE [exc |-> "ValueError", val |-> AssignedOn(sp, p_dtype, acc)]

-----------------------------------------------------------------------------
(* TwoDSpectrumCalculator.  The engine (aceto) and the Fourier transform    *)
(* are not part of the sources: their output for the waiting-time index it2 *)
(* and the cursor tc is a fixed array of the shape of the response          *)

\* longest t2 axis of the model
MaxT2 == 2

T2Axes == { <<0, n, 2>> : n \in 1..MaxT2 }
\* frequency axes produced by bootstrap
OA1 == <<-3, 3, 3>>
OA3s == { <<-3, 3, 3>>, <<0, 2, 3>> }

\* the t1 axis: as many samples as oa1, covering the t2 axes
T1Axis == <<0, 3, 2>>

\* reph2D / nonr2D computed from the responses of the engine, of the shape
\* (t1axis.length, t3axis.length) = (oa1.length, oa3.length)
EngineReph(it2, cur) ==
    [i \in 1..length(oa1) |-> [j \in 1..length(oa3) |-> 100 + 10 * it2 + cur]]
EngineNonr(it2, cur) ==
    [i \in 1..length(oa1) |-> [j \in 1..length(oa3) |-> 200 + 10 * it2 + cur]]

\* result of a calculator method: the exception, the returned value, the
\* cursor afterwards and the number of calculate_one evaluations started
CalcResult(e, v, c, n) == [exc |-> e, val |-> v, tc |-> c, n |-> n]

\* Uee[:,:,k] - Uc0[:,:,k]: one matrix per sample of the t2 axis, named by
\* its index
TransferMatrix(k) == <<"Uee-Uc0", k>>

\* the matrix on self.sys after calculate_one(p_tc) with the cursor at
\* self_tc: set_population_propagation_matrix(Utr) is reached when the engine
\* is there and both indices are in range
calculate_one_Utr(p_tc, self_tc, before) ==
    IF p_tc >= length(t2axis) \/ ~have_aceto \/ self_tc >= length(t2axis)
    THEN before
    ELSE TransferMatrix(self_tc)

\* calculate_one(p_tc) of the exact calculator, with the cursor at self_tc
calculate_one_result(p_tc, self_tc) ==
    IF p_tc >= length(t2axis) THEN Raise("IndexError")
    ELSE IF ~have_aceto THEN Raise("NameError")
    ELSE IF self_tc >= length(t2axis) THEN Raise("IndexError")
    ELSE
      LET tt2 == PyIndex(AxisData(t2axis), p_tc)
          it2 == CHOOSE i \in locate(T1Axis, tt2) : TRUE
          s0 == [NewSpectrum EXCEPT !.xaxis = oa1, !.yaxis = oa3]
          r1 == set_data_on(s0, EngineReph(it2, self_tc), "Reph")
          r2 == set_data_on(r1.val, EngineNonr(it2, self_tc), "Nonr")
      IN  IF r1.exc # "" THEN Raise(r1.exc)
          ELSE IF r2.exc # "" THEN Raise(r2.exc)
          ELSE Ok([r2.val EXCEPT !.t2 = tt2])

\* TwoDSpectrumContainer(axis) holding the spectra set so far
Container(axis, spectra) == [axis |-> axis, spectra |-> spectra]

\* the loop  for tt2 in teetoos: onetwod = self.calculate_next();
\* twods.set_spectrum(onetwod)   from sample k on, with the cursor at cur
RECURSIVE calculate_loop(_, _, _)
calculate_loop(k, cur, twods) ==
    IF k > length(t2axis) THEN CalcResult("", Container(t2axis, twods), cur, k - 1)
    ELSE LET sone == calculate_one_result(cur, cur)
         IN  IF sone.exc # "" THEN CalcResult(sone.exc, None, cur, k)
             ELSE calculate_loop(k + 1, cur + 1, Append(twods, sone.val))

\* faulty variant of calculate: the test of _have_aceto is missing
calculate_result_nocheck == calculate_loop(1, tc, << >>)

calculate_result ==
    IF have_aceto THEN calculate_loop(1, tc, << >>)
    ELSE CalcResult("", Container(None, << >>), tc, 0)

CalcEffect(o, r) ==
    /\ tc' = r.tc
    /\ ncalc' = r.n
    /\ Returned(o, r.exc, r.val)
    /\ UNCHANGED <<xaxis, yaxis, storevars, datavars, written, ncalls, twodvars,
                   have_aceto, pathways, kind, t2axis, oa1, oa3>>

\* the matrix on self.sys after the loop of calculate: every round that
\* reaches the transfer sets it anew
RECURSIVE calculate_loop_Utr(_, _, _)
calculate_loop_Utr(k, cur, before) ==
    IF k > length(t2axis) THEN before
    ELSE IF calculate_one_result(cur, cur).exc # ""
    THEN calculate_one_Utr(cur, cur, before)
    ELSE calculate_loop_Utr(k + 1, cur + 1, calculate_one_Utr(cur, cur, before))

\* bootstrap of the exact calculator: without the engine the name
\* band_system is undefined
bootstrap ==
    /\ kind = "exact"
    /\ IF have_aceto
       THEN /\ oa1' = OA1 /\ oa3' \in OA3s /\ tc' = 0
            /\ Utr' = None
            /\ Returned("bootstrap", "", None)
       ELSE /\ UNCHANGED <<oa1, oa3, tc, Utr>>
            /\ Returned("bootstrap", "NameError", None)
    /\ ncalc' = 0
    /\ UNCHANGED <<xaxis, yaxis, storevars, datavars, written, ncalls, twodvars,
                   have_aceto, pathways, kind, t2axis>>

calculate_one(p_tc) ==
    /\ kind = "exact" /\ (have_aceto => oa1 # None)
    /\ LET r == calculate_one_result(p_tc, tc)
       IN  CalcEffect("calculate_one", CalcResult(r.exc, r.val, tc, 1))
    /\ Utr' = calculate_one_Utr(p_tc, tc, Utr)

calculate_next ==
    /\ kind = "exact" /\ (have_aceto => oa1 # None)
    /\ LET r == calculate_one_result(tc, tc)
       IN  CalcEffect("calculate_next",
                      CalcResult(r.exc, r.val, IF r.exc = "" THEN tc + 1 ELSE tc, 1))
    /\ Utr' = calculate_one_Utr(tc, tc, Utr)

calculate ==
    /\ kind = "exact" /\ (have_aceto => oa1 # None)
    /\ CalcEffect("calculate", calculate_result)
    /\ Utr' = IF have_aceto THEN calculate_loop_Utr(1, tc, Utr) ELSE Utr

-----------------------------------------------------------------------------
(* MockTwoDSpectrumCalculator.  A pathway descriptor is a record of its     *)
(* pathway_type, centre frequencies cen1 and cen3 and prefactor pref; its   *)
(* widths are negative, so the calculator's widthx, widthy are used          *)

\* the calculator's widthx and widthy, equal to the step of the grids
Width == 3
Deph == 3

\* the four line-shape parameters of calculate_pathway: the descriptor's value
\* or the calculator's default
widthx(pwy) == IF PyIndex(pwy.widths, 1) < 0 THEN Width ELSE PyIndex(pwy.widths, 1)
widthy(pwy) == IF PyIndex(pwy.widths, 3) < 0 THEN Width ELSE PyIndex(pwy.widths, 3)
dephx(pwy) == IF PyIndex(pwy.dephs, 1) < 0 THEN Deph ELSE PyIndex(pwy.dephs, 1)
dephy(pwy) == IF PyIndex(pwy.widths, 3) < 0 THEN Deph ELSE PyIndex(pwy.dephs, 3)

\* exp(-(d/width)**2), scaled by 8 and rounded
Gaussian(d, width) ==
    LET q == (d * d) \div (width * width)
    IN  IF q = 0 THEN 8 ELSE IF q = 1 THEN 3 ELSE 0

\* the loop  for i1 in range(N1): arr[:, i1] = pref*g(o1[i1])*g(oo3)  on an
\* array of shape (N1, N3): column i1 receives a vector of N3 values
\* (sgn = -1 for a rephasing pathway, which negates the omega_1 sample)
FillColumns(pwy, sgn) ==
    LET N1 == length(oa1)
        N3 == length(oa3)
    IN  IF N1 = N3
        THEN Ok([i3 \in 1..N3 |-> [i1 \in 1..N1 |->
                   pwy.pref * Gaussian(sgn * AxisData(oa1)[i1] - pwy.cen1, widthx(pwy))
                            * Gaussian(AxisData(oa3)[i3] - pwy.cen3, widthy(pwy))]])
        ELSE IF N3 = 1 THEN Raise("IndexError")
        ELSE Raise("ValueError")

\* calculate_pathway(pathway, shape="Gaussian")
calculate_pathway(pwy) ==
    IF pwy.pathway_type = "R" THEN FillColumns(pwy, -1)
    ELSE IF pwy.pathway_type = "NR" THEN FillColumns(pwy, 1)
    ELSE Ok(None)

\* the loop  for pwy in self.pathways  of calculate_one and calculate
RECURSIVE pathway_loop(_, _)
pathway_loop(pws, onetwod) ==
    IF pws = << >> THEN Ok(onetwod)
    ELSE LET pwy == Head(pws)
             d == calculate_pathway(pwy)
             r == IF pwy.pathway_type = "R" THEN add_data_on(onetwod, d.val, "Reph")
                  ELSE IF pwy.pathway_type = "NR" THEN add_data_on(onetwod, d.val, "Nonr")
                  ELSE Raise("Exception: Unknown pathway type")
         IN  IF d.exc # "" THEN Raise(d.exc)
             ELSE IF r.exc # "" THEN Raise(r.exc)
             ELSE pathway_loop(Tail(pws), r.val)

\* faulty variant of the mock calculator's calculate_one: an index past the
\* end of the t2 axis is accepted and labels the spectrum with -1
Mock_calculate_one_result_nobound(p_tc) ==
    LET r == pathway_loop(pathways, [NewSpectrum EXCEPT !.xaxis = oa1, !.yaxis = oa3])
    IN  IF r.exc # "" THEN r
        ELSE IF p_tc >= length(t2axis) THEN Ok([r.val EXCEPT !.t2 = -1])
        ELSE Ok([r.val EXCEPT !.t2 = PyIndex(AxisData(t2axis), p_tc)])

\* the mock calculator's calculate_one(p_tc)
Mock_calculate_one_result(p_tc) ==
    LET r == pathway_loop(pathways, [NewSpectrum EXCEPT !.xaxis = oa1, !.yaxis = oa3])
    IN  IF r.exc # "" THEN r
        ELSE IF p_tc >= length(t2axis) THEN Raise("IndexError")
        ELSE Ok([r.val EXCEPT !.t2 = PyIndex(AxisData(t2axis), p_tc)])

\* the mock calculator's calculate()
Mock_calculate_result ==
    LET r == pathway_loop(pathways, [NewSpectrum EXCEPT !.xaxis = oa1, !.yaxis = oa3])
    IN  IF r.exc # "" THEN r ELSE Ok([r.val EXCEPT !.t2 = 0])

\* pathway descriptors and lists of them offered to the mock calculator
\* (widths and dephs below zero ask for the calculator's defaults)
Pathway(ty, c1, c3) ==
    [pathway_type |-> ty, cen1 |-> c1, cen3 |-> c3, pref |-> 1,
     widths |-> <<-1, -1, -1, -1>>, dephs |-> <<-1, -1, -1, -1>>]
Descriptors ==
    { Pathway("R", 3, 0), Pathway("NR", 3, 0), Pathway("X", 0, 0),
      [Pathway("NR", 3, 0) EXCEPT !.widths = <<-1, -1, -1, 2>>],
      [Pathway("R", 3, 0) EXCEPT !.dephs = <<-1, 1, -1, 2>>] }
PathwayLists ==
    { << >> } \cup { <<d>> : d \in Descriptors }
              \cup { <<d, e>> : d \in Descriptors, e \in Descriptors }

Mock_bootstrap(pws) ==
    /\ kind = "mock"
    /\ pathways' = pws
    /\ oa1' = OA1 /\ oa3' \in OA3s /\ tc' = 0 /\ ncalc' = 0
    /\ Returned("bootstrap", "", None)
    /\ UNCHANGED <<xaxis, yaxis, storevars, datavars, written, ncalls, twodvars,
                   have_aceto, kind, t2axis, Utr>>

set_pathways(pws) ==
    /\ kind = "mock" /\ oa1 # None
    /\ pathways' = pws
    /\ ncalc' = 0
    /\ Returned("set_pathways", "", None)
    /\ UNCHANGED <<xaxis, yaxis, storevars, datavars, written, ncalls, twodvars,
                   have_aceto, tc, kind, t2axis, oa1, oa3, Utr>>

Mock_calculate_one(p_tc) ==
    /\ kind = "mock" /\ oa1 # None
    /\ LET r == Mock_calculate_one_result(p_tc)
       IN  CalcEffect("calculate_one", CalcResult(r.exc, r.val, tc, 1))
    /\ UNCHANGED Utr

Mock_calculate_next ==
    /\ kind = "mock" /\ oa1 # None
    /\ LET r == Mock_calculate_one_result(tc)
       IN  CalcEffect("calculate_next",
                      CalcResult(r.exc, r.val, IF r.exc = "" THEN tc + 1 ELSE tc, 1))
    /\ UNCHANGED Utr

Mock_calculate ==
    /\ kind = "mock" /\ oa1 # None
    /\ LET r == Mock_calculate_result
       IN  CalcEffect("calculate", CalcResult(r.exc, r.val, tc, 0))
    /\ UNCHANGED Utr

\* a calculator after construction: either class, with or without the engine
InitCalc ==
    /\ xaxis = None /\ yaxis = None
    /\ has_d__data = FALSE /\ _d__data = EmptyDict
    /\ storage_resolution = "pathways"
    /\ storage_initialized = FALSE
    /\ current_dtype = NoneStr /\ current_tag = NoneStr /\ address_length = 1
    /\ dtype = NoneStr /\ data = None /\ reph2D = None /\ nonr2D = None
    /\ op = "__init__" /\ exc = "" /\ ret = None
    /\ written = << >> /\ ncalls = 0
    /\ keep_pathways = FALSE /\ keep_stypes = TRUE /\ t2 = -1
    /\ file = None
    /\ have_aceto \in BOOLEAN /\ kind \in {"exact", "mock"}
    /\ t2axis \in T2Axes
    /\ pathways = << >> /\ tc = 0 /\ ncalc = 0
    /\ oa1 = None /\ oa3 = None
    /\ Utr = None

NextCalc ==
    \/ bootstrap
    \/ \E p_tc \in 0..MaxT2 : calculate_one(p_tc)
    \/ calculate_next
    \/ calculate
    \/ \E pws \in PathwayLists : Mock_bootstrap(pws)
    \/ \E pws \in PathwayLists : set_pathways(pws)
    \/ \E p_tc \in 0..MaxT2 : Mock_calculate_one(p_tc)
    \/ Mock_calculate_next
    \/ Mock_calculate

\* one calculator object under any sequence of calls
SpecCalc == InitCalc /\ [][NextCalc]_vars

-----------------------------------------------------------------------------
(* TwoDSpectrum.save and load, with the default units.  The file is a       *)
(* record of the root group: its attributes t2 and keeps, its datasets and  *)
(* one group of attributes per axis; h5py refuses a dataset without data    *)

set_t2(p_t2) ==
    /\ t2' = p_t2
    /\ Returned("set_t2", "", None)
    /\ UNCHANGED <<xaxis, yaxis, storevars, datavars, written, ncalls,
                   keep_pathways, keep_stypes, file, calcvars>>

\* _save_attributes: keeps is a list of two integers
save_attributes(rt) ==
    [rt EXCEPT !.t2 = t2,
               !.keeps = << IF keep_pathways THEN 1 ELSE 0,
                            IF keep_stypes THEN 1 ELSE 0 >>]

\* rt.create_dataset(name, data=arr)
create_dataset(r, name, arr) ==
    IF r.exc # "" THEN r
    ELSE IF arr = None THEN [exc |-> "TypeError", val |-> r.val]
    ELSE Ok([r.val EXCEPT !.datasets = DictSet(r.val.datasets, name, arr)])

\* _save_data
save_data(rt) ==
    IF keep_stypes
    THEN create_dataset(create_dataset(Ok(rt), "reph2D", reph2D), "nonr2D", nonr2D)
    ELSE create_dataset(Ok(rt), "data", data)

\* _save_axis: the attributes start, length and step of the axis
save_axis(r, name, ax) ==
    IF r.exc # "" THEN r
    ELSE IF ax = None THEN [exc |-> "AttributeError", val |-> r.val]
    ELSE Ok([r.val EXCEPT !.axes = DictSet(r.val.axes, name,
                [start |-> ax[1], length |-> ax[2], step |-> ax[3]])])

\* the root group created by  h5py.File(filename, "w")  and _create_root_group
EmptyRoot == [t2 |-> None, keeps |-> None, datasets |-> EmptyDict, axes |-> EmptyDict]

\* save(filename): [exc, val], val the file left behind
save_result ==
    save_axis(save_axis(save_data(save_attributes(EmptyRoot)), "xaxis", xaxis),
              "yaxis", yaxis)

save ==
    /\ file' = save_result.val
    /\ Returned("save", save_result.exc, None)
    /\ UNCHANGED <<xaxis, yaxis, storevars, datavars, written, ncalls,
                   keep_pathways, keep_stypes, t2, calcvars>>

\* _load_axis
load_axis(rt, name) ==
    IF HasKey(rt.axes, name)
    THEN Ok(<< rt.axes[name].start, rt.axes[name].length, rt.axes[name].step >>)
    ELSE Raise("KeyError")

\* load(filename) on a new TwoDSpectrum: the attributes afterwards; a step
\* that raises leaves the later attributes as __init__ set them
load_from(rt, k_pathways, k_stypes) ==
    LET kp == k_pathways = 1
        ks == k_stypes = 1
        names == IF ks THEN <<"reph2D", "nonr2D">> ELSE <<"data">>
        got(name) == IF HasKey(rt.datasets, name) THEN rt.datasets[name] ELSE None
        okdata == \A i \in DOMAIN names : HasKey(rt.datasets, names[i])
        \* the first dataset is assigned before the lookup of the second fails
        part(name) == IF okdata \/ name = names[1] THEN got(name) ELSE None
        lx == load_axis(rt, "xaxis")
        ly == load_axis(rt, "yaxis")
    IN  [exc |-> IF ~okdata THEN "KeyError"
                 ELSE IF lx.exc # "" THEN lx.exc ELSE ly.exc,
         t2 |-> rt.t2, keep_pathways |-> kp, keep_stypes |-> ks,
         reph2D |-> IF ks THEN part("reph2D") ELSE None,
         nonr2D |-> IF ks THEN part("nonr2D") ELSE None,
         data |-> IF ks THEN None ELSE part("data"),
         xaxis |-> IF okdata /\ lx.exc = "" THEN lx.val ELSE None,
         yaxis |-> IF okdata /\ lx.exc = "" /\ ly.exc = "" THEN ly.val ELSE None]

\* faulty variant of load: the two entries of keeps are read in the other order
load_result_swapped(rt) == load_from(rt, rt.keeps[2], rt.keeps[1])

\* _load_attributes reads keep_pathways from keeps[0], keep_stypes from keeps[1]
load_result(rt) == load_from(rt, rt.keeps[1], rt.keeps[2])

\* TwoDSpectrum().load(filename): the model's spectrum becomes the new object
load ==
    /\ file # None
    /\ LET r == load_result(file)
       IN  /\ t2' = r.t2
           /\ keep_pathways' = r.keep_pathways /\ keep_stypes' = r.keep_stypes
           /\ reph2D' = r.reph2D /\ nonr2D' = r.nonr2D /\ data' = r.data
           /\ xaxis' = r.xaxis /\ yaxis' = r.yaxis
           /\ Returned("load", r.exc, None)
    /\ dtype' = NoneStr
    /\ has_d__data' = FALSE /\ _d__data' = EmptyDict
    /\ storage_resolution' = "pathways" /\ storage_initialized' = FALSE
    /\ current_dtype' = NoneStr /\ current_tag' = NoneStr /\ address_length' = 1
    /\ UNCHANGED <<written, ncalls, file, calcvars>>

\* values of t2 offered to set_t2
T2Values == {0, 2}

\* a spectrum after construction with any keep flags, its axes set and some
\* of its arrays filled
InitFile ==
    /\ xaxis \in TrimXAxes /\ yaxis \in TrimYAxes
    /\ has_d__data = FALSE /\ _d__data = EmptyDict
    /\ storage_resolution = "pathways"
    /\ storage_initialized = FALSE
    /\ current_dtype = NoneStr /\ current_tag = NoneStr /\ address_length = 1
    /\ keep_stypes \in BOOLEAN /\ keep_pathways \in BOOLEAN
    /\ dtype \in Range(dtypes)
    /\ data \in {None, Grid(length(xaxis), length(yaxis))}
    /\ reph2D \in {None, Grid(length(xaxis), length(yaxis))}
    /\ nonr2D \in {None, zeros(length(xaxis), length(yaxis))}
    /\ op = "__init__" /\ exc = "" /\ ret = None
    /\ written = << >> /\ ncalls = 0
    /\ t2 = -1
    /\ file = None
    /\ have_aceto = TRUE /\ pathways = << >> /\ tc = 0 /\ ncalc = 0
    /\ kind = "exact" /\ t2axis = <<0, 1, 1>> /\ oa1 = None /\ oa3 = None
    /\ Utr = None

NextFile ==
    \/ \E p_t2 \in T2Values : set_t2(p_t2)
    \/ \E axis \in TrimXAxes \cup TrimYAxes : set_axis_1(axis)
    \/ save
    \/ load

\* one spectrum and one file under any sequence of set_t2, save and load
SpecFile == InitFile /\ [][NextFile]_vars

-----------------------------------------------------------------------------
(* Properties *)

Level(res) == _resolution2number(res).val

ExcRaise == "Exception: Cannot convert from lower to higher resolution"
ExcUnknownResolution == "Exception: Unknown resolution"
ExcCannotConvert == "Exception: Cannot convert resolution"
ExcTagExists == "Exception: Tag already exists"
ExcIncorrectType == "Exception: Incorrect data type in TwoDSpectrum"

\* C1: over any sequence of calls the level of storage_resolution never
\* increases; set_resolution with a level above the current one fails with
\* 'Cannot convert from lower to higher resolution', set_resolution with an
\* unknown level fails, and both leave storage_resolution as it was.
C1_ResolutionNeverRaised ==
    [][ /\ Level(storage_resolution') <= Level(storage_resolution)
        /\ op' = "set_resolution" =>
             \A r \in ResolutionArgs :
                /\ (r \notin Range(_resolutions) /\ set_resolution(r)) =>
                      /\ exc' = ExcUnknownResolution
                      /\ storage_resolution' = storage_resolution
                /\ (/\ r \in Range(_resolutions)
                    /\ Level(r) > Level(storage_resolution)
                    /\ set_resolution(r)) =>
                      /\ exc' = ExcRaise
                      /\ storage_resolution' = storage_resolution ]_vars

\* C1 witness: a lowered spectrum on which an attempt to raise the resolution
\* has just failed.
C1_Witness ==
    /\ op = "set_resolution" /\ exc = ExcRaise
    /\ storage_resolution = "types"

FiveConversions == { <<"pathways", "types">>, <<"types", "processes">>,
                     <<"types", "signals">>, <<"signals", "off">>,
                     <<"processes", "off">> }

SumWritten == IAddAll(AxesZeros.val, [i \in DOMAIN written |-> written[i][3]])

\* C3: for the same written pathways, the 'total' view read at pathways, at
\* types, at processes and at signals resolution is the sum of all written
\* pathway arrays.
C3_TotalAtEveryResolution ==
    (/\ written # << >>
     /\ xaxis # None /\ yaxis # None
     /\ storage_resolution \in {"pathways", "types", "processes", "signals"})
    => prop_get("total", NoneStr) = SumWritten

StoredPairs == { <<written[i][1], written[i][2]>> : i \in DOMAIN written }

\* a write of array a under (t, g) at pathways resolution: rejected as a
\* duplicate when the pair is populated, stored otherwise
WriteOutcome(t, g, a) ==
    IF <<t, g>> \in StoredPairs
    THEN /\ exc' = ExcTagExists
         /\ written' = written
         /\ _d__data' = _d__data
    ELSE /\ exc' = ""
         /\ written' = Append(written, <<t, g, a>>)

\* at pathways resolution every written (type, tag) reads back as written
ReadsBack ==
    storage_resolution = "pathways" =>
        \A i \in DOMAIN written :
            written[i][2] # NoneStr =>
                prop_get(written[i][1], written[i][2]) = Ok(written[i][3])

\* C4: at pathways resolution a write under a populated (type, tag) pair fails
\* with 'Tag already exists', a write under a fresh tag succeeds, and
\* afterwards reading each written (type, tag) returns exactly the array
\* written under that pair.
C4_DuplicateTagRejected ==
    [][ /\ (op' = "_add_data" /\ storage_resolution = "pathways") =>
             \A a \in AddArgs :
                (/\ a[2] \in {NoneStr, "pathways"}
                 /\ a[3] \in Range(_ptypes)
                 /\ a[4] # NoneStr
                 /\ _add_data(a[1], a[2], a[3], a[4])) => WriteOutcome(a[3], a[4], a[1])
        /\ (/\ op' = "d__data_set" /\ storage_resolution = "pathways"
            /\ current_dtype \in Range(_ptypes) /\ current_tag # NoneStr) =>
             \A v \in Arrays :
                d__data_set(v) => WriteOutcome(current_dtype, current_tag, v)
        /\ ReadsBack'
      ]_vars

\* C4 witness: two arrays are stored under one type with different tags and a
\* further write under a populated pair has just been rejected.
C4_Witness ==
    /\ op = "_add_data" /\ exc = ExcTagExists
    /\ \E i, j \in DOMAIN written :
          written[i][1] = written[j][1] /\ written[i][2] # written[j][2]

\* C5: while nothing has been written (storage_initialized is still false),
\* reading any address returns a 1x1 zero array and does not raise, at every
\* resolution.
C5_UninitializedReadIsZero ==
    ~storage_initialized =>
        \A cd \in AllDtypes, ct \in AllTags : prop_get(cd, ct) = Ok(zeros(1, 1))

\* C6: set_data fixes the dtype on the first call; a later set_data whose
\* dtype differs from the fixed one fails with 'Incorrect data type' and
\* leaves dtype, data, reph2D and nonr2D unchanged; a later set_data with the
\* fixed dtype overwrites the array of that dtype and nothing else.
C6_SetDataFixesDtype ==
    [][ op' = "set_data" =>
          \A a \in DataArrays, d \in DtypeArgs :
             set_data(a, d) =>
                /\ (dtype = NoneStr /\ d \in Range(dtypes)) =>
                      /\ exc' = ""
                      /\ dtype' = d
                      /\ (AttrOf(d))' = a
                /\ (dtype # NoneStr /\ d # dtype) =>
                      /\ exc' = ExcIncorrectType
                      /\ UNCHANGED datavars
                /\ (dtype # NoneStr /\ d = dtype) =>
                      /\ exc' = ""
                      /\ dtype' = dtype
                      /\ (AttrOf(d))' = a
                      /\ \A e \in Range(dtypes) \ {d} : (AttrOf(e))' = AttrOf(e)
      ]_vars

\* C6 witness: the first call stored a rephasing array and fixed the dtype,
\* the second call, a set_data with another dtype, has just been rejected.
C6_Witness ==
    /\ op = "set_data" /\ exc = ExcIncorrectType
    /\ ncalls = 2
    /\ dtype = "Reph" /\ reph2D # None

\* C7: add_data adds the array to the accumulator of its dtype (A then B
\* gives A+B), and the first add_data for a dtype whose array is still None
\* zero-initialises the accumulator and succeeds.
C7_AddDataAccumulates ==
    [][ op' = "add_data" =>
          \A a \in DataArrays, d \in Range(dtypes) :
             (/\ AttrOf(d) = None \/ shape(AttrOf(d)) = shape(a)
              /\ add_data(a, d)) =>
                /\ exc' = ""
                /\ (AttrOf(d))' =
                      IAdd(IF AttrOf(d) = None
                           THEN zeros(shape(a)[1], shape(a)[2]) ELSE AttrOf(d), a)
      ]_vars

\* a write attempt that raises and leaves the store as it was
WriteFails == exc' # "" /\ UNCHANGED <<has_d__data, _d__data, written>>

\* C8: once the resolution is below 'pathways', every write attempt (through
\* _add_data with any resolution argument, or through the d__data setter)
\* raises and stores nothing.
C8_NoWriteBelowPathways ==
    [][ storage_resolution # "pathways" =>
          /\ op' = "_add_data" =>
                \A a \in AddArgs : _add_data(a[1], a[2], a[3], a[4]) => WriteFails
          /\ op' = "d__data_set" =>
                \A v \in Arrays : d__data_set(v) => WriteFails
      ]_vars

Mismatch(a) == shape(a) # <<length(xaxis), length(yaxis)>>

\* a write attempt that raises and stores no pathway
WriteRejected == exc' # "" /\ written' = written

\* C9: with both axes set, a pathway write whose array shape differs from
\* (xaxis.length, yaxis.length) raises and is not stored.
C9_ShapeMismatchRejected ==
    [][ (xaxis # None /\ yaxis # None /\ storage_resolution = "pathways") =>
          /\ op' = "_add_data" =>
                \A a \in AddArgs :
                   (Mismatch(a[1]) /\ _add_data(a[1], a[2], a[3], a[4])) => WriteRejected
          /\ op' = "d__data_set" =>
                \A v \in Arrays : (Mismatch(v) /\ d__data_set(v)) => WriteRejected
      ]_vars

\* the arrays written under type t, in the order written
RECURSIVE WrittenOfType(_, _)
WrittenOfType(t, w) ==
    IF w = << >> THEN << >>
    ELSE (IF Head(w)[1] = t THEN << Head(w)[3] >> ELSE << >>) \o WrittenOfType(t, Tail(w))

WrittenUnder(t, g) ==
    written[CHOOSE i \in DOMAIN written : written[i][1] = t /\ written[i][2] = g][3]

\* C10: at pathways resolution on a store holding written pathways, with the
\* axes set, reading [type, tag]
\* returns the array written under that pair and fails with the unknown-tag
\* error (KeyError) when nothing was written under it, also when the type has
\* no pathways at all; reading the type without a tag returns the sum of the
\* arrays written under the type.
C10_PathwayReads ==
    (/\ storage_resolution = "pathways" /\ storage_initialized
     /\ written # << >> /\ xaxis # None /\ yaxis # None) =>
        \A t \in Range(_ptypes) :
            /\ \A g \in Tags :
                  IF <<t, g>> \in StoredPairs
                  THEN prop_get(t, g) = Ok(WrittenUnder(t, g))
                  ELSE prop_get(t, g).exc = "KeyError"
            /\ LET ws == WrittenOfType(t, written)
               IN  (ws # << >> /\ \A i \in DOMAIN ws : shape(ws[i]) = shape(ws[1])) =>
                      prop_get(t, NoneStr) = IAddAll(ws[1], Tail(ws))

\* the window lies strictly inside the axes
StrictlyInside(w) ==
    /\ AxisMin(xaxis) < w[1] /\ w[1] < w[2] /\ w[2] < AxisMax(xaxis)
    /\ AxisMin(yaxis) < w[3] /\ w[3] < w[4] /\ w[4] < AxisMax(yaxis)

HasShape(a, n, m) == Len(a) = n /\ \A i \in DOMAIN a : Len(a[i]) = m

\* C11: trim_to with a window strictly inside the axes gives an xaxis whose
\* samples span at least [x0, x1], a yaxis whose samples span at least
\* [y0, y1], and trimmed arrays of shape (xaxis.length, yaxis.length).
C11_TrimCovers ==
    [][ op' = "trim_to" =>
          \A w \in Windows :
             (StrictlyInside(w) /\ trim_to(w)) =>
                /\ AxisMin(xaxis') <= w[1] /\ w[2] <= AxisMax(xaxis')
                /\ AxisMin(yaxis') <= w[3] /\ w[4] <= AxisMax(yaxis')
                /\ keep_stypes /\ reph2D # None =>
                      HasShape(reph2D', length(xaxis'), length(yaxis'))
                /\ keep_stypes /\ nonr2D # None =>
                      HasShape(nonr2D', length(xaxis'), length(yaxis'))
                /\ ~keep_stypes /\ data # None =>
                      HasShape(data', length(xaxis'), length(yaxis'))
      ]_vars

\* C12: calculate() on a bootstrapped exact calculator with the engine
\* available evaluates one spectrum per sample of the t2 axis, in order,
\* advances the cursor tc by one per sample and returns a container with one
\* spectrum per sample, the k-th labelled with t2 = t2axis.data[k].
C12_CalculateIterates ==
    [][ (/\ op' = "calculate" /\ kind = "exact" /\ have_aceto
         /\ oa1 # None /\ tc = 0 /\ calculate) =>
           /\ exc' = ""
           /\ ncalc' = length(t2axis)
           /\ tc' = length(t2axis)
           /\ Len(ret'.spectra) = length(t2axis)
           /\ \A k \in 1..length(t2axis) : ret'.spectra[k].t2 = AxisData(t2axis)[k]
      ]_vars

\* C13: calculate_one(tc) on a bootstrapped exact calculator returns a
\* spectrum with both reph2D and nonr2D populated, the axes oa1 and oa3 and
\* t2 = t2axis.data[tc].
C13_CalculateOneBothArrays ==
    [][ (/\ op' = "calculate_one" /\ kind = "exact" /\ have_aceto /\ oa1 # None) =>
           \A p_tc \in 0..(length(t2axis) - 1) :
              calculate_one(p_tc) =>
                 /\ exc' = ""
                 /\ ret'.reph2D # None /\ ret'.nonr2D # None
                 /\ ret'.xaxis = oa1 /\ ret'.yaxis = oa3
                 /\ ret'.t2 = AxisData(t2axis)[p_tc + 1]
      ]_vars

\* the contributions of the pathways of one type, in the order of the list
RECURSIVE Contributions(_, _)
Contributions(pws, ty) ==
    IF pws = << >> THEN << >>
    ELSE (IF Head(pws).pathway_type = ty
          THEN << calculate_pathway(Head(pws)).val >> ELSE << >>)
         \o Contributions(Tail(pws), ty)

\* the accumulator holding the sum of the contributions (None without any)
SumOf(cs) == IF cs = << >> THEN None ELSE IAddAll(Head(cs), Tail(cs)).val

ExcUnknownPathway == "Exception: Unknown pathway type"

\* what calculate_one and calculate of the mock calculator have to return
\* for the list of pathways, on grids on which every pathway can be rendered
MockOutcome ==
    IF \E i \in DOMAIN pathways : pathways[i].pathway_type \notin {"R", "NR"}
    THEN exc' = ExcUnknownPathway
    ELSE /\ exc' = ""
         /\ ret'.reph2D = SumOf(Contributions(pathways, "R"))
         /\ ret'.nonr2D = SumOf(Contributions(pathways, "NR"))

\* C14: calculate_one and calculate of the mock calculator add every pathway
\* of type 'R' into the Reph accumulator of the returned spectrum and every
\* pathway of type 'NR' into its Nonr accumulator, and fail with 'Unknown
\* pathway type' when the list holds a pathway of another type.
C14_MockAccumulates ==
    [][ (/\ kind = "mock" /\ oa1 # None /\ length(oa1) = length(oa3)) =>
           /\ (op' = "calculate" /\ Mock_calculate) => MockOutcome
           /\ op' = "calculate_one" =>
                \A p_tc \in 0..(length(t2axis) - 1) :
                   Mock_calculate_one(p_tc) => MockOutcome
      ]_vars

\* the positions [first index, second index] of the maxima of an array
ArgMax(a) ==
    { p \in (1..Len(a)) \X (1..Len(a[1])) :
        \A q \in (1..Len(a)) \X (1..Len(a[1])) : a[q[1]][q[2]] <= a[p[1]][p[2]] }

\* the position of the sample of value x on an axis
SampleAt(axis, x) == CHOOSE i \in 1..length(axis) : AxisData(axis)[i] = x

OnGrid(axis, x) == \E i \in 1..length(axis) : AxisData(axis)[i] = x

\* C15: for a pathway with centre frequencies (c1, c3) rendered with the
\* Gaussian shape on a grid holding the samples needed, the rephasing array
\* has its maximum at [index of omega1 = -c1, index of omega3 = c3] and the
\* non-rephasing array at [index of omega1 = c1, index of omega3 = c3].
C15_PeakPosition ==
    (kind = "mock" /\ oa1 # None) =>
        \A i \in DOMAIN pathways :
           LET pwy == pathways[i]
               o1 == IF pwy.pathway_type = "R" THEN -pwy.cen1 ELSE pwy.cen1
           IN  (/\ pwy.pathway_type \in {"R", "NR"}
                /\ OnGrid(oa1, o1) /\ OnGrid(oa3, pwy.cen3)) =>
                  /\ calculate_pathway(pwy).exc = ""
                  /\ ArgMax(calculate_pathway(pwy).val)
                        = { <<SampleAt(oa1, o1), SampleAt(oa3, pwy.cen3)>> }

Saved ==
    [t2 |-> t2, keep_pathways |-> keep_pathways, keep_stypes |-> keep_stypes,
     reph2D |-> IF keep_stypes THEN reph2D ELSE None,
     nonr2D |-> IF keep_stypes THEN nonr2D ELSE None,
     data |-> IF keep_stypes THEN None ELSE data,
     xaxis |-> xaxis, yaxis |-> yaxis]

\* the same attributes as a load of the file gives them to a new spectrum
Loaded(rt) == [x \in DOMAIN Saved |-> load_result(rt)[x]]

\* C16: a spectrum saved and loaded into a new TwoDSpectrum reproduces t2,
\* keep_pathways, keep_stypes, the stored arrays (reph2D and nonr2D when
\* keep_stypes, otherwise data) and the start, length and step of each axis.
C16_SaveLoadRoundTrip ==
    [][ /\ (op' = "save" /\ exc' = "" /\ save) =>
              /\ load_result(file').exc = ""
              /\ Loaded(file') = Saved
        /\ (op' = "load" /\ load) =>
              /\ exc' = load_result(file).exc
              /\ Saved' = Loaded(file)
      ]_vars

\* C16 witness: a file saved from a spectrum with keep_pathways set and
\* keep_stypes unset has just been loaded, giving back the flags, a t2 that
\* was set and the total array.
C16_Witness ==
    /\ op = "load" /\ exc = ""
    /\ keep_pathways /\ ~keep_stypes /\ t2 = 2 /\ data # None
    /\ Loaded(file) = Saved

\* the sum of the entries stored under the names, on the grid of the axes
SumStored(names) ==
    IAddAll(AxesZeros.val, [i \in DOMAIN names |-> _d__data[names[i]]])

\* C17: after set_resolution('off') from 'signals' or from 'processes' the
\* store holds a single entry, the total: the sum of the entries held before
\* the conversion; the signal or process entries are no longer stored.
C17_OffHoldsOnlyTotal ==
    [][ (/\ op' = "set_resolution"
         /\ storage_resolution \in {"signals", "processes"}
         /\ written # << >>
         /\ set_resolution("off")
         /\ exc' = "") =>
           /\ storage_resolution' = "off"
           /\ DOMAIN _d__data' = {"off"}
           /\ Ok(_d__data'["off"]) =
                 SumStored(IF storage_resolution = "signals"
                           THEN SignalNames ELSE ProcessNames)
      ]_vars

\* C18: for the same written pathways, the four process entries obtained by
\* lowering pathways -> types -> processes and the three signal entries
\* obtained by lowering pathways -> types -> signals both sum to the sum of
\* all written pathway arrays.
C18_ProcessesSignalsAgree ==
    (written # << >> /\ xaxis # None /\ yaxis # None) =>
        /\ storage_resolution = "processes" =>
              /\ DOMAIN _d__data = Range(ProcessNames)
              /\ SumStored(ProcessNames) = SumWritten
        /\ storage_resolution = "signals" =>
              /\ DOMAIN _d__data = Range(SignalNames)
              /\ SumStored(SignalNames) = SumWritten

\* C18 witness: two pathways of the same process, one rephasing and one
\* non-rephasing, were written and the store was lowered to processes.
C18_Witness ==
    /\ storage_resolution = "processes"
    /\ Len(written) = 2 /\ written[1][1] # written[2][1]
    /\ _d__data["GSB"] = IAdd(IAdd(AxesZeros.val, written[1][3]), written[2][3])

\* the names of a table under which a pathway type is listed, with the
\* positions of the type in their lists
ListedUnder(table, t) ==
    { <<k, i>> \in (DOMAIN table) \X (1..Len(_ptypes)) :
         i \in DOMAIN table[k] /\ table[k][i] = t }

\* C19: each of the 8 pathway types is listed under exactly one process and
\* under exactly one signal, and the tables list pathway types only: at every
\* resolution of the store the processes and the signals each partition the
\* set of pathway types.
C19_TablesPartition ==
    storage_resolution \in Range(_resolutions) =>
        /\ Cardinality(Range(_ptypes)) = Len(_ptypes)
        /\ DOMAIN _processes = Range(ProcessNames)
        /\ DOMAIN _signals = Range(SignalNames)
        /\ \A t \in Range(_ptypes) :
              /\ Cardinality(ListedUnder(_processes, t)) = 1
              /\ Cardinality(ListedUnder(_signals, t)) = 1
        /\ \A k \in DOMAIN _processes : Range(_processes[k]) \subseteq Range(_ptypes)
        /\ \A k \in DOMAIN _signals : Range(_signals[k]) \subseteq Range(_ptypes)

\* C19 witness: the tables were used: a written rephasing pathway sits in
\* the REPH entry of a store lowered to signals.
C19_Witness ==
    /\ storage_resolution = "signals"
    /\ \E i \in DOMAIN written : written[i][1] \in Range(_signals["REPH"])
    /\ _d__data["REPH"] # AxesZeros.val

\* C21: calculate_one(tc) of the exact calculator builds the transfer matrix
\* from the propagation matrices at the index tc it is given, for every tc
\* in range and whatever the calculator's cursor is.
C21_TransferAtArgument ==
    [][ (/\ op' = "calculate_one" /\ kind = "exact" /\ have_aceto /\ oa1 # None) =>
           \A p_tc \in 0..(length(t2axis) - 1) :
              calculate_one(p_tc) => Utr' = TransferMatrix(p_tc)
      ]_vars

\* the descriptor's value when it is >= 0, the calculator's default otherwise
Resolved(value, default) == IF value >= 0 THEN value ELSE default

\* C22: every line-shape parameter calculate_pathway uses for a pathway of
\* the mock calculator comes from its own descriptor field: widthx from
\* widths[1], widthy from widths[3], dephx from dephs[1], dephy from dephs[3],
\* the descriptor's value when it is >= 0 and the default when it is < 0.
C22_ParametersResolved ==
    (kind = "mock" /\ op \in {"calculate_one", "calculate_next", "calculate"}) =>
       \A i \in DOMAIN pathways :
          LET pwy == pathways[i]
          IN  pwy.pathway_type \in {"R", "NR"} =>
                /\ widthx(pwy) = Resolved(PyIndex(pwy.widths, 1), Width)
                /\ widthy(pwy) = Resolved(PyIndex(pwy.widths, 3), Width)
                /\ dephx(pwy) = Resolved(PyIndex(pwy.dephs, 1), Deph)
                /\ dephy(pwy) = Resolved(PyIndex(pwy.dephs, 3), Deph)

\* C23: storage_initialized is true exactly when the store holds at least one
\* written array: false on a new spectrum, true from the first successful
\* write on, and not changed by a write that fails.
C23_InitializedIffWritten ==
    storage_initialized <=> (written # << >>)

\* C24: reading a view (a type without tag, a process, a signal or 'total')
\* at pathways or types resolution leaves the store, storage_resolution and
\* storage_initialized unchanged, so every read gives afterwards what it gave
\* before.
C24_ReadsDoNotMutate ==
    [][ (/\ op' = "d__data_get"
         /\ storage_resolution \in {"pathways", "types"}
         /\ (current_tag = NoneStr \/ current_dtype \notin Range(_ptypes))) =>
           /\ UNCHANGED <<has_d__data, _d__data, storage_resolution,
                          storage_initialized>>
           /\ prop_get(current_dtype, current_tag)'
                 = prop_get(current_dtype, current_tag)
           /\ \A i \in DOMAIN written :
                 prop_get(written[i][1], written[i][2])'
                    = prop_get(written[i][1], written[i][2])
      ]_vars

\* C24 witness: a type holding two pathways has just been read without a tag
\* and the read returned their sum.
C24_Witness ==
    /\ op = "d__data_get" /\ exc = ""
    /\ storage_resolution = "pathways" /\ storage_initialized
    /\ current_tag = NoneStr /\ current_dtype \in Range(_ptypes)
    /\ HasKey(_d__data, current_dtype) /\ Len(_d__data[current_dtype]) = 2
    /\ ret = IAdd(_d__data[current_dtype][1][2], _d__data[current_dtype][2][2])

\* C25: a set_resolution call that fails (a higher level, an unsupported
\* conversion, an unknown name, or an exception inside the conversion) leaves
\* storage_resolution and the store exactly as they were before the call.
C25_FailedConversionKeepsStore ==
    [][ (op' = "set_resolution" /\ exc' # "") =>
           UNCHANGED <<storage_resolution, has_d__data, _d__data,
                       storage_initialized>>
      ]_vars

\* C25 witness: on a store holding a pathway an unsupported conversion has
\* just failed and the pathway still reads back.
C25_Witness ==
    /\ op = "set_resolution" /\ exc = ExcCannotConvert
    /\ storage_resolution = "pathways" /\ written # << >>
    /\ prop_get(written[1][1], written[1][2]) = Ok(written[1][3])

\* the labels that can be read without a tag at a resolution
Addressable(resolution) ==
    IF resolution = "types"
    THEN Range(_ptypes) \cup (DOMAIN _processes) \cup (DOMAIN _signals)
    ELSE IF resolution = "processes" THEN DOMAIN _processes
    ELSE IF resolution = "signals" THEN DOMAIN _signals
    ELSE {}

\* the three conversions that keep per-label entries
Lowerings == { <<"pathways", "types">>, <<"types", "processes">>,
               <<"types", "signals">> }

\* C26: on an initialised store with axes set, a successful pathways -> types,
\* types -> processes or types -> signals conversion preserves every coarser
\* view: what a type (without tag), a process or a signal read before the
\* conversion is what the same label reads after it, for every label still
\* addressable at the new level.
C26_LoweringPreservesViews ==
    [][ (/\ op' = "set_resolution" /\ exc' = ""
         /\ storage_initialized /\ xaxis # None /\ yaxis # None
         /\ <<storage_resolution, storage_resolution'>> \in Lowerings) =>
           \A cd \in Addressable(storage_resolution') :
              prop_get(cd, NoneStr).exc = "" =>
                 prop_get(cd, NoneStr)' = prop_get(cd, NoneStr)
      ]_vars

\* C27: after trim_to with a window every array the spectrum holds (data,
\* reph2D, nonr2D) has the shape (xaxis.length, yaxis.length) of the new
\* axes, for either value of keep_stypes and whichever arrays were populated.
C27_ArraysFollowAxes ==
    [][ (op' = "trim_to" /\ \E w \in Windows : trim_to(w)) =>
           /\ data # None => HasShape(data', length(xaxis'), length(yaxis'))
           /\ reph2D # None => HasShape(reph2D', length(xaxis'), length(yaxis'))
           /\ nonr2D # None => HasShape(nonr2D', length(xaxis'), length(yaxis'))
      ]_vars

\* C28: the cursor tc stays within 0..len(t2axis): a successful bootstrap
\* sets it to 0, calculate_next adds exactly one when calculate_one succeeds
\* and leaves it when calculate_one raises, calculate_one never changes it,
\* and calculate_next with the cursor at len(t2axis) raises.
C28_CursorInRange ==
    [][ /\ 0 <= tc' /\ tc' <= length(t2axis')
        /\ (op' = "bootstrap" /\ exc' = "") => tc' = 0
        /\ op' = "calculate_next" => tc' = IF exc' = "" THEN tc + 1 ELSE tc
        /\ op' = "calculate_one" => tc' = tc
        /\ (op' = "calculate_next" /\ tc = length(t2axis)) => exc' # ""
      ]_vars

\* C28 witness: the cursor of a mock calculator has reached the end of the
\* t2 axis and a further calculate_next has just raised.
C28_Witness ==
    /\ kind = "mock" /\ op = "calculate_next" /\ exc = "IndexError"
    /\ tc = length(t2axis) /\ tc > 0

\* the line shape of a pathway at the omega_1 sample i1 and the omega_3
\* sample i3 of the calculator's axes
ShapeAt(pwy, i1, i3) ==
    LET sgn == IF pwy.pathway_type = "R" THEN -1 ELSE 1
    IN  pwy.pref * Gaussian(sgn * AxisData(oa1)[i1] - pwy.cen1, widthx(pwy))
                 * Gaussian(AxisData(oa3)[i3] - pwy.cen3, widthy(pwy))

\* C29: producers and consumers index the arrays alike: the array that
\* calculate_pathway renders, held by a spectrum on the axes (oa1, oa3), gives
\* through get_value_at(omega_1 sample i1, omega_3 sample i3) the value
\* rendered for these two samples, on grids with N1 # N3 as with N1 = N3.
C29_IndexOrder ==
    (/\ kind = "mock" /\ oa1 # None
     /\ op \in {"calculate_one", "calculate_next", "calculate"}) =>
        \A i \in DOMAIN pathways :
           LET pwy == pathways[i]
               d == calculate_pathway(pwy)
               ty == IF pwy.pathway_type = "R" THEN "Reph" ELSE "Nonr"
               sp == set_data_on([NewSpectrum EXCEPT !.xaxis = oa1, !.yaxis = oa3],
                                 d.val, ty).val
           IN  pwy.pathway_type \in {"R", "NR"} =>
                 /\ d.exc = ""
                 /\ \A i1 \in 1..length(oa1), i3 \in 1..length(oa3) :
                       get_value_at(sp, AxisData(oa1)[i1], AxisData(oa3)[i3])
                          = Ok(ShapeAt(pwy, i1, i3))

\* C30: a pathway write that fails with the duplicate-tag error leaves every
\* stored (type, tag) entry unchanged, the one under the colliding pair
\* included, and get_all_tags returns the same list of [type, tag] pairs
\* after the failed write as before it.
C30_DuplicateLeavesEntries ==
    [][ (op' \in {"_add_data", "d__data_set"} /\ exc' = ExcTagExists) =>
           /\ UNCHANGED <<has_d__data, _d__data>>
           /\ get_all_tags' = get_all_tags
           /\ get_all_tags.exc = ""
           /\ <<current_dtype', current_tag'>> \in Range(get_all_tags.val)
           /\ \A cd \in AllDtypes, ct \in AllTags :
                 (cd = current_dtype' /\ ct = current_tag') =>
                    prop_get(cd, ct)' = prop_get(cd, ct)
      ]_vars

\* C30 witness: with pathways stored under two types, a write under one of
\* the populated pairs has just been rejected and both pairs are listed.
C30_Witness ==
    /\ op \in {"_add_data", "d__data_set"} /\ exc = ExcTagExists
    /\ get_all_tags.exc = "" /\ Len(get_all_tags.val) = 2
    /\ get_all_tags.val[1][1] # get_all_tags.val[2][1]
    /\ <<current_dtype, current_tag>> \in Range(get_all_tags.val)
====
